---- MODULE Spec2Model ----
(***************************************************************************)
(* DocuFresh (src/src/index.js): the marker registry and the two-pass      *)
(* template processor.  Texts are TLA+ strings; a character is a string of *)
(* length one.                                                             *)
(***************************************************************************)
EXTENDS Integers, Sequences, FiniteSets, TLC

----------------------------------------------------------------------------
(* Strings *)

\* s.charAt(i - 1): the i-th character, "" outside the string
Ch(s, i) == IF i >= 1 /\ i <= Len(s) THEN SubSeq(s, i, i) ELSE ""

\* s.startsWith(p, i - 1)
StartsWithAt(s, p, i) ==
    /\ i >= 1
    /\ i + Len(p) - 1 <= Len(s)
    /\ SubSeq(s, i, i + Len(p) - 1) = p

\* s.indexOf(p, i - 1) + 1: the first index >= i where p occurs, 0 when none
RECURSIVE IndexOfFrom(_, _, _)
IndexOfFrom(s, p, i) ==
    IF i + Len(p) - 1 > Len(s) THEN 0
    ELSE IF StartsWithAt(s, p, i) THEN i
    ELSE IndexOfFrom(s, p, i + 1)

WhiteSpace == {" ", "\t", "\n", "\r"}

RECURSIVE TrimStart(_)
TrimStart(s) ==
    IF s /= "" /\ Ch(s, 1) \in WhiteSpace THEN TrimStart(SubSeq(s, 2, Len(s))) ELSE s

RECURSIVE TrimEnd(_)
TrimEnd(s) ==
    IF s /= "" /\ Ch(s, Len(s)) \in WhiteSpace
    THEN TrimEnd(SubSeq(s, 1, Len(s) - 1)) ELSE s

\* String.prototype.trim
Trim(s) == TrimEnd(TrimStart(s))

\* String.prototype.split(sep) for a one-character separator
RECURSIVE Split(_, _)
Split(s, sep) ==
    LET i == IndexOfFrom(s, sep, 1)
    IN IF i = 0 THEN <<s>>
       ELSE <<SubSeq(s, 1, i - 1)>> \o Split(SubSeq(s, i + 1, Len(s)), sep)

\* Array.prototype.join(sep)
RECURSIVE Join(_, _)
Join(parts, sep) ==
    IF parts = <<>> THEN ""
    ELSE IF Len(parts) = 1 THEN parts[1]
    ELSE parts[1] \o sep \o Join(Tail(parts), sep)

----------------------------------------------------------------------------
(* Regular expressions, as far as `new RegExp("{{" + key + "}}", "g")`     *)
(* needs them: literal characters, `.`, `|`, the quantifiers `*` `+` `?`   *)
(* `{n}` (with the lazy `?` suffix), and the syntax errors of an unclosed  *)
(* group or class and of a quantifier with nothing to repeat.              *)

Digits == {"0", "1", "2", "3", "4", "5", "6", "7", "8", "9"}

DigitVal(c) ==
    CASE c = "0" -> 0 [] c = "1" -> 1 [] c = "2" -> 2 [] c = "3" -> 3
      [] c = "4" -> 4 [] c = "5" -> 5 [] c = "6" -> 6 [] c = "7" -> 7
      [] c = "8" -> 8 [] c = "9" -> 9

\* the index of the last digit of the digit run that starts at i (i - 1: none)
RECURSIVE DigitRunEnd(_, _)
DigitRunEnd(p, i) ==
    IF Ch(p, i) \in Digits THEN DigitRunEnd(p, i + 1) ELSE i - 1

\* the value of a string of decimal digits
RECURSIVE DecimalValue(_)
DecimalValue(d) ==
    IF d = "" THEN 0
    ELSE 10 * DecimalValue(SubSeq(d, 1, Len(d) - 1)) + DigitVal(Ch(d, Len(d)))

\* a braced quantifier `{n}` starting at i: the index of its `}`, 0 when the
\* text at i is no braced quantifier (then `{` is an ordinary character)
BracedEnd(p, i) ==
    LET e == DigitRunEnd(p, i + 1)
    IN IF Ch(p, i) = "{" /\ e >= i + 1 /\ Ch(p, e + 1) = "}" THEN e + 1 ELSE 0

Unbounded == -1

CharTerm(c) == [kind |-> "char", c |-> c, min |-> 1, max |-> 1, lazy |-> FALSE]
AnyTerm == [kind |-> "any", c |-> "", min |-> 1, max |-> 1, lazy |-> FALSE]

Quantified(cur, lo, hi) ==
    [cur EXCEPT ![Len(cur)] = [@ EXCEPT !.min = lo, !.max = hi]]

MadeLazy(cur) == [cur EXCEPT ![Len(cur)] = [@ EXCEPT !.lazy = TRUE]]

SyntaxError == [ok |-> FALSE, alts |-> <<>>]

\* The pattern parser.  alts: the alternatives closed by `|` so far; cur: the
\* terms of the alternative being read; q: "atom" when the last term of cur
\* can take a quantifier, "quant" when it has just taken a greedy one (a `?`
\* then makes it lazy), "none" otherwise.  The key alphabet holds no `)` and
\* no `]`, so a group or a class that a key opens is never closed.
RECURSIVE ParseRE(_, _, _, _, _)
ParseRE(p, i, alts, cur, q) ==
    IF i > Len(p) THEN [ok |-> TRUE, alts |-> Append(alts, cur)]
    ELSE LET c == Ch(p, i)
             be == BracedEnd(p, i)
         IN CASE c = "|" -> ParseRE(p, i + 1, Append(alts, cur), <<>>, "none")
              [] c = "*" ->
                    IF q = "atom"
                    THEN ParseRE(p, i + 1, alts, Quantified(cur, 0, Unbounded), "quant")
                    ELSE SyntaxError
              [] c = "+" ->
                    IF q = "atom"
                    THEN ParseRE(p, i + 1, alts, Quantified(cur, 1, Unbounded), "quant")
                    ELSE SyntaxError
              [] c = "?" ->
                    IF q = "atom"
                    THEN ParseRE(p, i + 1, alts, Quantified(cur, 0, 1), "quant")
                    ELSE IF q = "quant"
                    THEN ParseRE(p, i + 1, alts, MadeLazy(cur), "none")
                    ELSE SyntaxError
              [] c = "{" /\ be > 0 ->
                    IF q = "atom"
                    THEN LET n == DecimalValue(SubSeq(p, i + 1, be - 1))
                         IN ParseRE(p, be + 1, alts, Quantified(cur, n, n), "quant")
                    ELSE SyntaxError
              [] c \in {"(", "[", ")"} -> SyntaxError
              [] c = "." -> ParseRE(p, i + 1, alts, Append(cur, AnyTerm), "atom")
              [] OTHER -> ParseRE(p, i + 1, alts, Append(cur, CharTerm(c)), "atom")

\* new RegExp(source, "g"): [ok |-> FALSE] is the SyntaxError it throws
RegExpG(source) == ParseRE(source, 1, <<>>, <<>>, "none")

LineTerminators == {"\n", "\r"}

AtomMatches(t, s, pos) ==
    /\ pos <= Len(s)
    /\ IF t.kind = "any" THEN Ch(s, pos) \notin LineTerminators ELSE Ch(s, pos) = t.c

\* how many times in a row the atom of t matches from pos on, at most cap
\* times (cap = Unbounded: no limit)
RECURSIVE RunLength(_, _, _, _)
RunLength(t, s, pos, cap) ==
    IF cap = 0 \/ ~AtomMatches(t, s, pos) THEN 0
    ELSE 1 + RunLength(t, s, pos + 1, IF cap = Unbounded THEN cap ELSE cap - 1)

\* The backtracking matcher: the index after the match of terms k.. of ts at
\* pos, 0 when there is none.  A greedy term takes the largest repetition
\* count that lets the rest match, a lazy one the smallest.
RECURSIVE MatchTerms(_, _, _, _)
MatchTerms(ts, k, s, pos) ==
    IF k > Len(ts) THEN pos
    ELSE LET t == ts[k]
             hi == RunLength(t, s, pos, t.max)
             good == {n \in t.min..hi : MatchTerms(ts, k + 1, s, pos + n) /= 0}
         IN IF good = {} THEN 0
            ELSE LET n == IF t.lazy
                          THEN CHOOSE m \in good : \A o \in good : m <= o
                          ELSE CHOOSE m \in good : \A o \in good : m >= o
                 IN MatchTerms(ts, k + 1, s, pos + n)

\* the alternatives are tried in order: the first that matches at pos wins
RECURSIVE MatchAlts(_, _, _, _)
MatchAlts(alts, a, s, pos) ==
    IF a > Len(alts) THEN 0
    ELSE LET e == MatchTerms(alts[a], 1, s, pos)
         IN IF e /= 0 THEN e ELSE MatchAlts(alts, a + 1, s, pos)

\* GetSubstitution of String.prototype.replace for a pattern without capture
\* groups: `$$` is `$`, `$&` the match, `$'` the text after it; a `$` before
\* any other character of the model's alphabet stands for itself.  (The
\* directive for the text before the match is a `$` and a backquote, a
\* character no TLA+ string can hold: the model's values never contain it.)
RECURSIVE GetSubstitution(_, _, _, _)
GetSubstitution(repl, i, matched, after) ==
    IF i > Len(repl) THEN ""
    ELSE IF Ch(repl, i) = "$" /\ Ch(repl, i + 1) \in {"$", "&", "'"}
    THEN LET n == Ch(repl, i + 1)
             ins == CASE n = "$" -> "$"
                      [] n = "&" -> matched
                      [] n = "'" -> after
         IN ins \o GetSubstitution(repl, i + 2, matched, after)
    ELSE Ch(repl, i) \o GetSubstitution(repl, i + 1, matched, after)

\* s.replace(/re/g, repl) from pos on: every match, left to right, the scan
\* resuming after each match (one character further after an empty match)
RECURSIVE ReplaceAllRE(_, _, _, _)
ReplaceAllRE(s, alts, repl, pos) ==
    IF pos > Len(s) + 1 THEN ""
    ELSE LET e == MatchAlts(alts, 1, s, pos)
         IN IF e = 0
            THEN Ch(s, pos) \o ReplaceAllRE(s, alts, repl, pos + 1)
            ELSE LET sub == GetSubstitution(repl, 1, SubSeq(s, pos, e - 1),
                                            SubSeq(s, e, Len(s)))
                 IN IF e = pos
                    THEN sub \o Ch(s, pos) \o ReplaceAllRE(s, alts, repl, pos + 1)
                    ELSE sub \o ReplaceAllRE(s, alts, repl, e)

\* s.replace(p, repl) for a string p: the first occurrence of p only
ReplaceFirst(s, p, repl) ==
    LET i == IndexOfFrom(s, p, 1)
    IN IF i = 0 THEN s
       ELSE SubSeq(s, 1, i - 1)
            \o GetSubstitution(repl, 1, p, SubSeq(s, i + Len(p), Len(s)))
            \o SubSeq(s, i + Len(p), Len(s))

----------------------------------------------------------------------------
(* Numbers.  A JavaScript number is modelled exactly as NaN, an infinity   *)
(* or a signed fraction n/d (sign s, so that -0 is s = -1, n = 0).  The    *)
(* arithmetic below is IEEE arithmetic wherever the result is exact in a   *)
(* double: integers of small magnitude and fractions whose denominator is  *)
(* a power of two.  The model's texts keep to that range.                  *)

NaN == [t |-> "nan", s |-> 1, n |-> 0, d |-> 1]
Infinity(sg) == [t |-> "inf", s |-> sg, n |-> 0, d |-> 1]

RECURSIVE Gcd(_, _)
Gcd(a, b) == IF b = 0 THEN a ELSE Gcd(b, a % b)

Fin(sg, num, den) ==
    LET g == Gcd(num, den)
    IN [t |-> "fin", s |-> sg, n |-> num \div g, d |-> den \div g]

IsZero(a) == a.t = "fin" /\ a.n = 0

Neg(a) == IF a.t = "nan" THEN a ELSE [a EXCEPT !.s = -a.s]

\* a + b
NumAdd(a, b) ==
    IF a.t = "nan" \/ b.t = "nan" THEN NaN
    ELSE IF a.t = "inf" /\ b.t = "inf" THEN (IF a.s = b.s THEN a ELSE NaN)
    ELSE IF a.t = "inf" THEN a
    ELSE IF b.t = "inf" THEN b
    ELSE LET v == a.s * a.n * b.d + b.s * b.n * a.d
         IN IF v < 0 THEN Fin(-1, -v, a.d * b.d)
            ELSE IF v > 0 THEN Fin(1, v, a.d * b.d)
            ELSE Fin(IF IsZero(a) /\ IsZero(b) /\ a.s = -1 /\ b.s = -1 THEN -1 ELSE 1,
                     0, 1)

\* a - b
NumSub(a, b) == NumAdd(a, Neg(b))

\* a * b
NumMul(a, b) ==
    IF a.t = "nan" \/ b.t = "nan" THEN NaN
    ELSE IF a.t = "inf" \/ b.t = "inf"
    THEN (IF IsZero(a) \/ IsZero(b) THEN NaN ELSE Infinity(a.s * b.s))
    ELSE Fin(a.s * b.s, a.n * b.n, a.d * b.d)

\* a / b
NumDiv(a, b) ==
    IF a.t = "nan" \/ b.t = "nan" THEN NaN
    ELSE IF a.t = "inf" THEN (IF b.t = "inf" THEN NaN ELSE Infinity(a.s * b.s))
    ELSE IF b.t = "inf" THEN Fin(a.s * b.s, 0, 1)
    ELSE IF IsZero(b) THEN (IF IsZero(a) THEN NaN ELSE Infinity(a.s * b.s))
    ELSE Fin(a.s * b.s, a.n * b.d, a.d * b.n)

\* parseFloat(str): leading white space is skipped, then the longest prefix
\* that is a decimal literal is read: an optional sign and `Infinity` or a
\* run of digits; NaN when there is no such prefix.  (The parameters of the
\* model hold no decimal point and no exponent.)
parseFloat(str) ==
    LET t == TrimStart(str)
        sg == IF Ch(t, 1) = "-" THEN -1 ELSE 1
        from == IF Ch(t, 1) \in {"-", "+"} THEN 2 ELSE 1
        e == DigitRunEnd(t, from)
    IN IF StartsWithAt(t, "Infinity", from) THEN Infinity(sg)
       ELSE IF e < from THEN NaN
       ELSE Fin(sg, DecimalValue(SubSeq(t, from, e)), 1)

DigitChar(v) ==
    CASE v = 0 -> "0" [] v = 1 -> "1" [] v = 2 -> "2" [] v = 3 -> "3"
      [] v = 4 -> "4" [] v = 5 -> "5" [] v = 6 -> "6" [] v = 7 -> "7"
      [] v = 8 -> "8" [] v = 9 -> "9"

\* the decimal digits of a natural number
RECURSIVE NatToString(_)
NatToString(v) ==
    IF v < 10 THEN DigitChar(v) ELSE NatToString(v \div 10) \o DigitChar(v % 10)

\* the digits after the decimal point of r/d, r < d (they end: d is a power
\* of two)
RECURSIVE FractionDigits(_, _)
FractionDigits(r, d) ==
    IF r = 0 THEN ""
    ELSE DigitChar((r * 10) \div d) \o FractionDigits((r * 10) % d, d)

\* Number.prototype.toString
NumberToString(a) ==
    IF a.t = "nan" THEN "NaN"
    ELSE IF a.t = "inf" THEN (IF a.s = -1 THEN "-Infinity" ELSE "Infinity")
    ELSE IF a.n = 0 THEN "0"
    ELSE (IF a.s = -1 THEN "-" ELSE "")
         \o NatToString(a.n \div a.d)
         \o (IF a.n % a.d = 0 THEN "" ELSE "." \o FractionDigits(a.n % a.d, a.d))

----------------------------------------------------------------------------
(* Marker functions.  A registry value is named by a string: a built-in of *)
(* getBuiltInMarkers, a member of Object.prototype (the registry is a      *)
(* plain object, so a property read falls through to its prototype), or a  *)
(* function the user registers.                                            *)

Zero == Fin(1, 0, 1)
One == Fin(1, 1, 1)

AddStep(total, num, index) == NumAdd(total, parseFloat(num))
\* subtract without the special case for the first element
SubtractStep_NoFirst(total, num, index) == NumSub(total, parseFloat(num))

SubtractStep(total, num, index) ==
    IF index = 0 THEN parseFloat(num) ELSE NumSub(total, parseFloat(num))
MultiplyStep(total, num, index) == NumMul(total, parseFloat(num))
DivideStep(total, num, index) ==
    IF index = 0 THEN parseFloat(num) ELSE NumDiv(total, parseFloat(num))

\* the reducer callback of the marker named op
Step(op, total, num, index) ==
    CASE op = "add" -> AddStep(total, num, index)
      [] op = "subtract" -> SubtractStep(total, num, index)
      [] op = "multiply" -> MultiplyStep(total, num, index)
      [] op = "divide" -> DivideStep(total, num, index)

\* numbers.reduce(callback, seed) from element k on, total being the
\* accumulator; the callback takes (total, num, index)
RECURSIVE Reduce(_, _, _, _)
Reduce(op, numbers, k, total) ==
    IF k > Len(numbers) THEN total
    ELSE Reduce(op, numbers, k + 1, Step(op, total, numbers[k], k - 1))

add(numbers) == NumberToString(Reduce("add", numbers, 1, Zero))

subtract(numbers) ==
    IF Len(numbers) = 0 THEN "0"
    ELSE NumberToString(Reduce("subtract", numbers, 1, Zero))

multiply(numbers) == NumberToString(Reduce("multiply", numbers, 1, One))

divide(numbers) ==
    IF Len(numbers) = 0 THEN "0"
    ELSE NumberToString(Reduce("divide", numbers, 1, Zero))

\* the built-in markers the model carries (the math markers)
BuiltInNames == {"add", "subtract", "multiply", "divide"}

\* getBuiltInMarkers(): the registry a new instance starts with
getBuiltInMarkers == [n \in BuiltInNames |-> n]

\* the functions a user registers: one that returns "X", one that throws and
\* one that returns marker text
UserFns == {"constX", "throws", "markerB"}

\* functions whose result holds a `$`: one returns "$$5", one returns "$&"
DollarFns == {"price", "sameAgain"}

\* the members of Object.prototype that the model's texts can name
ObjectPrototype ==
    [n \in {"toString", "constructor", "hasOwnProperty"} |->
        CASE n = "toString" -> "Object.prototype.toString"
          [] n = "constructor" -> "Object"
          [] n = "hasOwnProperty" -> "Object.prototype.hasOwnProperty"]

Undefined == "undefined"

Returned(v) == [threw |-> FALSE, val |-> v]
Threw == [threw |-> TRUE, val |-> ""]

\* markerFn(...params), and String(...) of what it returns: the call is made
\* in strict code without a receiver, so `this` is undefined in the callee
Call(fn, params) ==
    CASE fn = "add" -> Returned(add(params))
      [] fn = "subtract" -> Returned(subtract(params))
      [] fn = "multiply" -> Returned(multiply(params))
      [] fn = "divide" -> Returned(divide(params))
      [] fn = "constX" -> Returned("X")
      [] fn = "markerB" -> Returned("{{b}}")
      [] fn = "throws" -> Threw
      [] fn = "price" -> Returned("$$5")
      [] fn = "sameAgain" -> Returned("$&")
      [] fn = "Object.prototype.toString" -> Returned("[object Undefined]")
      [] fn = "Object" ->
            Returned(IF params = <<>> THEN "[object Object]" ELSE params[1])
      [] fn = "Object.prototype.hasOwnProperty" -> Threw

\* this.markers[markerName]
Lookup(reg, markerName) ==
    IF markerName \in DOMAIN reg THEN reg[markerName]
    ELSE IF markerName \in DOMAIN ObjectPrototype THEN ObjectPrototype[markerName]
    ELSE Undefined

----------------------------------------------------------------------------
(* The template processor *)

StringValue(v) == [t |-> "string", s |-> v, n |-> 0, b |-> FALSE]
NumberValue(v) == [t |-> "number", s |-> "", n |-> v, b |-> FALSE]
BooleanValue(v) == [t |-> "boolean", s |-> "", n |-> 0, b |-> v]

\* String(value) of a custom-data value
String(value) ==
    CASE value.t = "string" -> value.s
      [] value.t = "number" ->
            NumberToString(IF value.n < 0 THEN Fin(-1, -value.n, 1)
                           ELSE Fin(1, value.n, 1))
      [] value.t = "boolean" -> IF value.b THEN "true" ELSE "false"

\* replaceCustomData(text, data) from entry k on; data is Object.entries(data)
\* in order.  raised: new RegExp threw a SyntaxError, which nothing catches.
RECURSIVE replaceCustomDataFrom(_, _, _)
replaceCustomDataFrom(result, data, k) ==
    IF k > Len(data) THEN [raised |-> FALSE, out |-> result]
    ELSE LET pattern == RegExpG("{{" \o data[k].key \o "}}")
         IN IF ~pattern.ok THEN [raised |-> TRUE, out |-> result]
            ELSE replaceCustomDataFrom(
                    ReplaceAllRE(result, pattern.alts, String(data[k].value), 1),
                    data, k + 1)

replaceCustomData(text, data) == replaceCustomDataFrom(text, data, 1)

\* matchAll with single braces as the delimiters
RECURSIVE matchAll_SingleBrace(_, _)
matchAll_SingleBrace(text, pos) ==
    IF pos > Len(text) THEN <<>>
    ELSE LET j == IndexOfFrom(text, "}", pos + 1)
         IN IF Ch(text, pos) = "{" /\ j > pos + 1
            THEN <<[full |-> SubSeq(text, pos, j),
                    content |-> SubSeq(text, pos + 1, j - 1),
                    index |-> pos]>> \o matchAll_SingleBrace(text, j + 1)
            ELSE matchAll_SingleBrace(text, pos + 1)

\* [...text.matchAll(/{{([^}]+)}}/g)] from pos on: at a `{{` the content runs
\* to the first `}`, must not be empty and must be followed by a second `}`
RECURSIVE matchAll(_, _)
matchAll(text, pos) ==
    IF pos > Len(text) THEN <<>>
    ELSE LET j == IndexOfFrom(text, "}", pos + 2)
         IN IF StartsWithAt(text, "{{", pos) /\ j > pos + 2 /\ Ch(text, j + 1) = "}"
            THEN <<[full |-> SubSeq(text, pos, j + 1),
                    content |-> SubSeq(text, pos + 2, j - 1),
                    index |-> pos]>> \o matchAll(text, j + 2)
            ELSE matchAll(text, pos + 1)

\* parts[0].trim()
markerNameOf(markerContent) == Trim(Split(markerContent, ":")[1])

\* paramsOf taking parts[1] alone, so that a parameter ends at its first colon
paramsOf_FirstPartOnly(markerContent) ==
    LET parts == Split(markerContent, ":")
        paramString == IF Len(parts) > 1 THEN parts[2] ELSE ""
        pieces == Split(paramString, ",")
    IN IF paramString /= "" THEN [k \in 1..Len(pieces) |-> Trim(pieces[k])]
       ELSE <<>>

\* parts.slice(1).join(':'), then split by comma and trim each piece
paramsOf(markerContent) ==
    LET parts == Split(markerContent, ":")
        paramString == Join(Tail(parts), ":")
        pieces == Split(paramString, ",")
    IN IF paramString /= "" THEN [k \in 1..Len(pieces) |-> Trim(pieces[k])]
       ELSE <<>>

\* the loop of replaceBuiltInMarkers over matches k..; calls: the invocations
\* made, in order; log: the markers console.error reported
RECURSIVE replaceLoop(_, _, _, _, _, _)
replaceLoop(reg, matches, k, result, calls, log) ==
    IF k > Len(matches) THEN [out |-> result, calls |-> calls, log |-> log]
    ELSE LET fullMarker == matches[k].full
             markerName == markerNameOf(matches[k].content)
             params == paramsOf(matches[k].content)
             markerFn == Lookup(reg, markerName)
             r == Call(markerFn, params)
             call == [match |-> k, name |-> markerName, fn |-> markerFn,
                      params |-> params, threw |-> r.threw]
         IN IF markerFn = Undefined
            THEN replaceLoop(reg, matches, k + 1, result, calls, log)
            ELSE IF r.threw
            THEN replaceLoop(reg, matches, k + 1, result, Append(calls, call),
                             Append(log, fullMarker))
            ELSE replaceLoop(reg, matches, k + 1,
                             ReplaceFirst(result, fullMarker, r.val),
                             Append(calls, call), log)

replaceBuiltInMarkers(reg, text) ==
    replaceLoop(reg, matchAll(text, 1), 1, text, <<>>, <<>>)

\* process(text, customData): pass1 is the text between the two passes
process(reg, text, customData) ==
    LET p1 == replaceCustomData(text, customData)
        p2 == replaceBuiltInMarkers(reg, p1.out)
    IN IF p1.raised
       THEN [raised |-> TRUE, out |-> "", pass1 |-> p1.out,
             calls |-> <<>>, log |-> <<>>]
       ELSE [raised |-> FALSE, out |-> p2.out, pass1 |-> p1.out,
             calls |-> p2.calls, log |-> p2.log]

\* registerMarker that keeps an entry the registry already has
registerMarker_KeepFirst(reg, name, fn) ==
    [n \in DOMAIN reg \cup {name} |-> IF n \in DOMAIN reg THEN reg[n] ELSE fn]

\* registerMarker(name, fn): this.markers[name] = fn
registerMarker(reg, name, fn) ==
    [n \in DOMAIN reg \cup {name} |-> IF n = name THEN fn ELSE reg[n]]

----------------------------------------------------------------------------
(* The program: instances of DocuFresh and the calls made on them *)

\* the singleton the module exports and an instance made by new DocuFresh()
Instances == {"docufresh", "df"}

\* the names registerMarker is called with
RegNames == {"a", "b", "1", "add"}

\* the most registerMarker calls of one run
MaxRegs == 2

Entry(k, v) == [key |-> k, value |-> v]

\* the keys of the custom data of the model
Keys == {"a", "b", "1", ".", "|", "+", "(", "add"}

\* the custom data process is called with, as Object.entries lists it
Datas ==
    {<<>>}
    \cup {<<Entry(k, StringValue("A"))>> : k \in Keys}
    \cup {<<Entry("a", NumberValue(5))>>, <<Entry("a", BooleanValue(TRUE))>>,
          <<Entry("a", StringValue("{{b}}")), Entry("b", StringValue("X"))>>,
          <<Entry("b", StringValue("X")), Entry("a", StringValue("{{b}}"))>>}

\* texts without a marker
PlainTexts == {"", "ab", "{{", "a}}b", "{a}", "{{}}", "}}{{", "{}"}

\* one marker, written in the ways the parser has to tell apart
MarkerTails == {"", ":", ":1", ": 1 , 2 ", ":10:30:00", ":,"}
OneMarkerTexts ==
    {"{{" \o n \o t \o "}}" : n \in {"a", " b "}, t \in MarkerTails}
    \cup {"{{" \o n \o "}}" :
            n \in {"1", ".", "|", "+", "(", "add", "zz", "zz:1", ":a",
                   "toString", "constructor", "constructor:q", "hasOwnProperty",
                   "add:5,3,2", "subtract:10,3", "multiply:-2,3", "divide:10,4"}}

\* several markers in one text
ManyMarkerTexts ==
    {"{{a}}{{b}}", "{{b}} {{a}}", "{{a}} {{a}}", "x{{zz}}y{{a}}", "{{zz}}{{add:1}}",
     "{{a:{{b}}{{b}}", "{{zz:{{b}}{{b}}", "{{1}} {}"}

Texts == PlainTexts \cup OneMarkerTexts \cup ManyMarkerTexts

\* the texts that are processed with custom data
DataTexts ==
    {"{{a}}", "{{b}}", "{{1}}", "{{.}}", "{{|}}", "{{+}}", "{{(}}", "{{add}}",
     "{}", "{{}}", "ab", "{{a}} {{a}}", "{{zz}}", "{{a}}{{b}}"}

\* the calls of process: <<text, customData>>
Inputs ==
    {<<t, <<>>>> : t \in Texts} \cup (DataTexts \X (Datas \ {<<>>}))

VARIABLES
    markers,    \* markers[i]: the registry (this.markers) of instance i
    regLog,     \* the registerMarker calls made so far, in order
    ret         \* the process call that has just returned, or NoCall

vars == <<markers, regLog, ret>>

NoCall == [op |-> "none"]

\* module load: const docufresh = new DocuFresh()
Init ==
    /\ markers = [i \in {"docufresh"} |-> getBuiltInMarkers]
    /\ regLog = <<>>
    /\ ret = NoCall

\* new DocuFresh(): a further instance, with a registry of its own (the calls
\* of Next below are all made on the singleton)
Construct(i) ==
    /\ ret = NoCall
    /\ i \notin DOMAIN markers
    /\ markers' = [j \in DOMAIN markers \cup {i} |->
                      IF j = i THEN getBuiltInMarkers ELSE markers[j]]
    /\ UNCHANGED <<regLog, ret>>

\* i.registerMarker(name, fn)
\* registerMarker on a registry object that all instances would share
RegisterMarker_Shared(i, name, fn) ==
    /\ ret = NoCall
    /\ i \in DOMAIN markers
    /\ Len(regLog) < MaxRegs
    /\ markers' = [j \in DOMAIN markers |-> registerMarker(markers[j], name, fn)]
    /\ regLog' = Append(regLog, [inst |-> i, name |-> name, fn |-> fn])
    /\ UNCHANGED ret

RegisterMarker(i, name, fn) ==
    /\ ret = NoCall
    /\ i \in DOMAIN markers
    /\ Len(regLog) < MaxRegs
    /\ markers' = [markers EXCEPT ![i] = registerMarker(@, name, fn)]
    /\ regLog' = Append(regLog, [inst |-> i, name |-> name, fn |-> fn])
    /\ UNCHANGED ret

\* i.process(text, customData)
Process(i, text, customData) ==
    /\ ret = NoCall
    /\ i \in DOMAIN markers
    /\ ret' = [op |-> "process", inst |-> i, text |-> text, data |-> customData,
               res |-> process(markers[i], text, customData)]
    /\ UNCHANGED <<markers, regLog>>

\* the caller takes the result
Return ==
    /\ ret /= NoCall
    /\ ret' = NoCall
    /\ UNCHANGED <<markers, regLog>>

\* the calls a program makes on the exported singleton
Next ==
    \/ \E n \in RegNames, f \in UserFns : RegisterMarker("docufresh", n, f)
    \/ \E in \in Inputs : Process("docufresh", in[1], in[2])
    \/ Return

Spec == Init /\ [][Next]_vars

----------------------------------------------------------------------------
(* The math markers on their own: process on the texts `{{m:n1,n2,...}}`   *)

\* the most parameters of a math marker
MaxParams == 3

\* the integers the math markers are given; the divisors are zero or powers
\* of two, so that every quotient is exact
MathNums == {-3, 0, 2, 3, 5, 10}
Divisors == {-2, 0, 1, 4}

SeqsUpTo(S, n) == UNION {[1..k -> S] : k \in 0..n}

MathCases ==
    {[m |-> m, nums |-> ns] :
        m \in {"add", "subtract", "multiply"}, ns \in SeqsUpTo(MathNums, MaxParams)}
    \cup {[m |-> "divide", nums |-> <<n>> \o ds] :
            n \in MathNums, ds \in SeqsUpTo(Divisors, MaxParams - 1)}
    \cup {[m |-> "divide", nums |-> <<>>]}

\* an integer as it is written in a text
IntLit(v) == IF v < 0 THEN "-" \o NatToString(-v) ELSE NatToString(v)

MathText(m, nums) ==
    IF nums = <<>> THEN "{{" \o m \o "}}"
    ELSE "{{" \o m \o ":" \o Join([k \in 1..Len(nums) |-> IntLit(nums[k])], ",") \o "}}"

NextMath ==
    \/ \E c \in MathCases : Process("docufresh", MathText(c.m, c.nums), <<>>)
    \/ Return

SpecMath == Init /\ [][NextMath]_vars

----------------------------------------------------------------------------
(* The relative_time marker                                                *)

\* An instant is a record [day, ms]: whole days since the epoch and the
\* milliseconds into that day, so that Date differences stay within the
\* integers of the checker.
MsPerDay == 1000 * 60 * 60 * 24

\* Math.floor((now - targetDate) / (1000 * 60 * 60 * 24))
DiffDays(now, targetDate) ==
    (now.day - targetDate.day) + (IF now.ms < targetDate.ms THEN -1 ELSE 0)

\* `${weeks} week${weeks > 1 ? 's' : ''} ago` and its month and year forms
AgoPhrase(n, unit) ==
    NatToString(n) \o " " \o unit \o (IF n > 1 THEN "s" ELSE "") \o " ago"

relative_time(now, targetDate) ==
    LET diffDays == DiffDays(now, targetDate)
        futureDays == -diffDays
    IN CASE diffDays = 0 -> "today"
         [] diffDays = 1 -> "yesterday"
         [] diffDays = -1 -> "tomorrow"
         [] diffDays < -1 ->
               (IF futureDays < 7 THEN "in " \o NatToString(futureDays) \o " days"
                ELSE IF futureDays < 30
                     THEN "in " \o NatToString(futureDays \div 7) \o " weeks"
                ELSE IF futureDays < 365
                     THEN "in " \o NatToString(futureDays \div 30) \o " months"
                ELSE "in " \o NatToString(futureDays \div 365) \o " years")
         [] OTHER ->
               (IF diffDays < 7 THEN NatToString(diffDays) \o " days ago"
                ELSE IF diffDays < 30 THEN AgoPhrase(diffDays \div 7, "week")
                ELSE IF diffDays < 365 THEN AgoPhrase(diffDays \div 30, "month")
                ELSE AgoPhrase(diffDays \div 365, "year"))

\* the marker function is called at the instant now for the date targetDate
RelativeTime(now, targetDate) ==
    /\ ret = NoCall
    /\ ret' = [op |-> "relative_time", now |-> now, date |-> targetDate,
               res |-> relative_time(now, targetDate)]
    /\ UNCHANGED <<markers, regLog>>

MaxDays == 800

DayTimes == {0, 12 * 60 * 60 * 1000, MsPerDay - 1}

Nows == {[day |-> MaxDays, ms |-> t] : t \in {0, 12 * 60 * 60 * 1000}}

TargetDates == {[day |-> d, ms |-> t] : d \in 0..(2 * MaxDays), t \in DayTimes}

NextRelative ==
    \/ \E now \in Nows, targetDate \in TargetDates : RelativeTime(now, targetDate)
    \/ Return

SpecRelative == Init /\ [][NextRelative]_vars

----------------------------------------------------------------------------
(* Several instances: the default one and one made with new DocuFresh()    *)

InstanceNames == {"a", "add"}

InstanceFns == {"constX", "throws"}

InstanceInputs ==
    {<<"x", <<>>>>, <<"{{a}}", <<>>>>, <<"{{add:1,2}}", <<>>>>,
     <<"{{a}} {{add}}", <<>>>>, <<"{{a}}", <<Entry("a", StringValue("A"))>>>>}

NextInstances ==
    \/ \E i \in Instances : Construct(i)
    \/ \E i \in Instances, n \in InstanceNames, f \in InstanceFns : RegisterMarker(i, n, f)
    \/ \E i \in Instances, in \in InstanceInputs : Process(i, in[1], in[2])
    \/ Return

SpecInstances == Init /\ [][NextInstances]_vars

----------------------------------------------------------------------------
(* Values and results that hold a `$`                                      *)

DollarValues == {"$$5", "$&", "$'", "$1", "A$", "$"}

DollarTexts == {"{{p}}", "x{{p}}y", "{{p}} {{b}}", "{{b}}", "a{{b}}c"}

DollarInputs ==
    {<<t, <<>>>> : t \in DollarTexts}
    \cup {<<t, <<Entry("p", StringValue(v))>>>> : t \in DollarTexts, v \in DollarValues}

NextDollar ==
    \/ \E f \in DollarFns : RegisterMarker("docufresh", "b", f)
    \/ \E in \in DollarInputs : Process("docufresh", in[1], in[2])
    \/ Return

SpecDollar == Init /\ [][NextDollar]_vars

----------------------------------------------------------------------------
(* What the claims need to speak about a call *)

Called == ret.op = "process"
Completed == Called /\ ~ret.res.raised

\* name was passed to registerMarker on instance i before
RegisteredOn(i, name) ==
    \E k \in 1..Len(regLog) : regLog[k].inst = i /\ regLog[k].name = name

\* the function of the most recent registerMarker(name, .) on i, "none" if
\* there was no such call
RECURSIVE LastRegistered(_, _, _)
LastRegistered(log, i, name) ==
    IF log = <<>> THEN "none"
    ELSE IF log[Len(log)].inst = i /\ log[Len(log)].name = name
    THEN log[Len(log)].fn
    ELSE LastRegistered(SubSeq(log, 1, Len(log) - 1), i, name)

KeysOf(data) == {data[k].key : k \in 1..Len(data)}

\* the name of a matched content: the trimmed text before its first colon
NameBeforeColon(content) ==
    LET c == IndexOfFrom(content, ":", 1)
    IN Trim(IF c = 0 THEN content ELSE SubSeq(content, 1, c - 1))

\* the pieces of s between its commas, trimmed, found from the right
RECURSIVE CommaPieces(_)
CommaPieces(s) ==
    LET commas == {i \in 1..Len(s) : Ch(s, i) = ","}
        l == CHOOSE i \in commas : \A j \in commas : j <= i
    IN IF commas = {} THEN <<Trim(s)>>
       ELSE Append(CommaPieces(SubSeq(s, 1, l - 1)), Trim(SubSeq(s, l + 1, Len(s))))

\* the parameters of a matched content: everything after the first colon
ParamsAfterColon(content) ==
    LET c == IndexOfFrom(content, ":", 1)
        rest == IF c = 0 THEN "" ELSE SubSeq(content, c + 1, Len(content))
    IN IF rest = "" THEN <<>> ELSE CommaPieces(rest)

\* every occurrence of the exact text p in s replaced by v, v taken as it is
RECURSIVE LiteralReplaceAll(_, _, _)
LiteralReplaceAll(s, p, v) ==
    LET i == IndexOfFrom(s, p, 1)
    IN IF i = 0 THEN s
       ELSE SubSeq(s, 1, i - 1) \o v
            \o LiteralReplaceAll(SubSeq(s, i + Len(p), Len(s)), p, v)

----------------------------------------------------------------------------
(* The claims *)

\* the name of match k of the text between the passes is unknown to the call
UnknownMatch(k) ==
    LET name == NameBeforeColon(matchAll(ret.res.pass1, 1)[k].content)
    IN /\ name \notin BuiltInNames
       /\ ~RegisteredOn(ret.inst, name)
       /\ name \notin KeysOf(ret.data)

\* C1: a marker whose name is neither built in nor registered on the instance
\* (nor a custom-data key) has no function invoked for it, and a text all of
\* whose markers are such is returned unchanged by the second pass.
C1_UnknownMarkersUnchanged ==
    Completed =>
        LET n == Len(matchAll(ret.res.pass1, 1))
        IN /\ \A k \in 1..n :
                UnknownMatch(k) =>
                    \A j \in 1..Len(ret.res.calls) : ret.res.calls[j].match /= k
           /\ (\A k \in 1..n : UnknownMatch(k)) => ret.res.out = ret.res.pass1

\* C2: process never raises, whatever the text, the custom data and the
\* registry are.
C2_ProcessNeverRaises == Called => ~ret.res.raised

\* what the second pass yields when every match is replaced where it stands:
\* the returned value for a match whose function returns, the match itself
\* for one whose function throws or whose name is not found
RECURSIVE InPlace(_, _, _, _)
InPlace(reg, text, ms, k) ==
    IF k > Len(ms)
    THEN (IF ms = <<>> THEN text
          ELSE SubSeq(text, ms[Len(ms)].index + Len(ms[Len(ms)].full), Len(text)))
    ELSE LET from == IF k = 1 THEN 1 ELSE ms[k - 1].index + Len(ms[k - 1].full)
             fn == Lookup(reg, NameBeforeColon(ms[k].content))
             r == Call(fn, ParamsAfterColon(ms[k].content))
         IN SubSeq(text, from, ms[k].index - 1)
            \o (IF fn = Undefined \/ r.threw THEN ms[k].full ELSE r.val)
            \o InPlace(reg, text, ms, k + 1)

SomeCallThrew == \E j \in 1..Len(ret.res.calls) : ret.res.calls[j].threw

\* C3: when the function of a matched marker throws, that occurrence stays as
\* written, the marker is logged, and every other matched marker is replaced
\* as if nothing had failed.
C3_FailureAbsorbed ==
    (Completed /\ SomeCallThrew) =>
        /\ ret.res.out = InPlace(markers[ret.inst], ret.res.pass1,
                                 matchAll(ret.res.pass1, 1), 1)
        /\ \A j \in 1..Len(ret.res.calls) :
                ret.res.calls[j].threw =>
                    \E l \in 1..Len(ret.res.log) :
                        ret.res.log[l] = matchAll(ret.res.pass1, 1)[ret.res.calls[j].match].full

\* C4: with one key k in the custom data, the first pass replaces exactly the
\* occurrences of the literal text `{{k}}` by String(value).
C4_KeysMatchedLiterally ==
    (Called /\ Len(ret.data) = 1) =>
        /\ ~ret.res.raised
        /\ ret.res.pass1 = LiteralReplaceAll(ret.text, "{{" \o ret.data[1].key \o "}}",
                                             String(ret.data[1].value))

\* the call process("{{x}}", {x: "A"}) for a name x that is built in or was
\* registered on the instance
ShadowingCall ==
    /\ Called
    /\ Len(ret.data) = 1
    /\ ret.data[1].value = StringValue("A")
    /\ ret.text = "{{" \o ret.data[1].key \o "}}"
    /\ ret.data[1].key \in BuiltInNames \/ RegisteredOn(ret.inst, ret.data[1].key)

\* C5: process("{{x}}", {x: "A"}) returns "A" and invokes no registry function,
\* for every x that is a built-in name or a registered name.
C5_CustomDataShadows ==
    ShadowingCall => /\ ~ret.res.raised
                     /\ ret.res.out = "A"
                     /\ ret.res.calls = <<>>

\* the function a lookup of name on instance i must give: the one registered
\* last, else the built-in
ExpectedFn(i, name) ==
    IF LastRegistered(regLog, i, name) /= "none" THEN LastRegistered(regLog, i, name)
    ELSE name

\* C6: the function looked up for a built-in or registered name, and invoked
\* for it by process, is the one of the most recent registerMarker call for
\* that name, or the built-in when there was none.
C6_LastRegistrationWins ==
    /\ \A i \in DOMAIN markers, n \in RegNames \cup BuiltInNames :
            (n \in BuiltInNames \/ RegisteredOn(i, n)) =>
                Lookup(markers[i], n) = ExpectedFn(i, n)
    /\ Completed =>
            \A j \in 1..Len(ret.res.calls) :
                LET c == ret.res.calls[j]
                IN (c.name \in BuiltInNames \/ RegisteredOn(ret.inst, c.name)) =>
                        c.fn = ExpectedFn(ret.inst, c.name)

\* a marker was invoked whose name was registered twice, with two functions
C6_Witness ==
    /\ Completed
    /\ \E j \in 1..Len(ret.res.calls), k, l \in 1..Len(regLog) :
            /\ k < l
            /\ regLog[k].name = ret.res.calls[j].name
            /\ regLog[l].name = ret.res.calls[j].name
            /\ regLog[k].fn /= regLog[l].fn
            /\ ret.res.calls[j].fn = regLog[l].fn

\* the text holds `{{`, later `}}`, and something or nothing in between
HasMarkerOccurrence(text) ==
    \E i, j \in 1..Len(text) :
        /\ j >= i + 2
        /\ StartsWithAt(text, "{{", i)
        /\ StartsWithAt(text, "}}", j)

\* C7: a text without any `{{...}}` occurrence, processed without custom data,
\* is returned as it is, whatever the registry holds.
C7_IdentityOnMarkerFreeText ==
    (Called /\ ret.data = <<>> /\ ~HasMarkerOccurrence(ret.text)) =>
        /\ ~ret.res.raised
        /\ ret.res.out = ret.text
        /\ ret.res.calls = <<>>

\* a marker-free text with braces in it went through a registry that holds
\* registered markers
C7_Witness ==
    /\ Called
    /\ ret.data = <<>>
    /\ ret.text = "{a}"
    /\ RegisteredOn(ret.inst, "a")
    /\ ret.res.out = "{a}"

\* C8: every invocation made for a matched content has the trimmed text before
\* the first colon as its name and, as its parameters, the trimmed pieces
\* between the commas of everything after the first colon (none when there is
\* no colon or nothing after it); every match whose name is found is invoked.
C8_InvocationParsing ==
    Completed =>
        LET ms == matchAll(ret.res.pass1, 1)
        IN /\ \A j \in 1..Len(ret.res.calls) :
                LET c == ret.res.calls[j]
                IN /\ c.match \in 1..Len(ms)
                   /\ c.name = NameBeforeColon(ms[c.match].content)
                   /\ c.params = ParamsAfterColon(ms[c.match].content)
           /\ \A k \in 1..Len(ms) :
                Lookup(markers[ret.inst], NameBeforeColon(ms[k].content)) /= Undefined
                    => \E j \in 1..Len(ret.res.calls) : ret.res.calls[j].match = k

\* a marker written with a time as its parameter was invoked with the time
\* as one parameter
C8_Witness ==
    /\ Completed
    /\ ret.text = "{{ b :10:30:00}}"
    /\ Len(ret.res.calls) = 1
    /\ ret.res.calls[1].name = "b"
    /\ ret.res.calls[1].params = <<"10:30:00">>

IsIntLit(p) ==
    LET d == IF Ch(p, 1) = "-" THEN SubSeq(p, 2, Len(p)) ELSE p
    IN d /= "" /\ \A i \in 1..Len(d) : Ch(d, i) \in Digits

IntOf(p) ==
    IF Ch(p, 1) = "-" THEN -DecimalValue(SubSeq(p, 2, Len(p))) ELSE DecimalValue(p)

RECURSIVE SumOf(_)
SumOf(nums) == IF nums = <<>> THEN 0 ELSE nums[1] + SumOf(Tail(nums))

RECURSIVE ProductOf(_)
ProductOf(nums) == IF nums = <<>> THEN 1 ELSE nums[1] * ProductOf(Tail(nums))

Abs(v) == IF v < 0 THEN -v ELSE v

\* the quotient n / d, d /= 0, as a decimal numeral
QuotientLit(n, d) ==
    NumberToString(Fin(IF (n < 0) /= (d < 0) THEN -1 ELSE 1, Abs(n), Abs(d)))

\* what the math marker m is to return for the integers nums (for divide:
\* when no divisor is zero)
ExpectedMath(m, nums) ==
    CASE m = "add" -> IntLit(SumOf(nums))
      [] m = "multiply" -> IntLit(ProductOf(nums))
      [] m = "subtract" ->
            IF nums = <<>> THEN "0" ELSE IntLit(nums[1] - SumOf(Tail(nums)))
      [] m = "divide" ->
            IF nums = <<>> THEN "0" ELSE QuotientLit(nums[1], ProductOf(Tail(nums)))

\* C9: for integer parameters, add returns their sum, multiply their product,
\* subtract the first minus the following ones, divide the first divided by
\* the following ones (none of them zero); subtract and divide without
\* parameters return "0".
C9_MathFolds ==
    (Completed /\ Len(ret.res.calls) = 1) =>
        LET c == ret.res.calls[1]
            nums == [k \in 1..Len(c.params) |-> IntOf(c.params[k])]
        IN (/\ c.name \in BuiltInNames
            /\ c.fn = c.name
            /\ \A k \in 1..Len(c.params) : IsIntLit(c.params[k])
            /\ ret.text = MathText(c.name, nums)
            /\ c.name = "divide" => \A k \in 2..Len(nums) : nums[k] /= 0)
           => ret.res.out = ExpectedMath(c.name, nums)

\* subtract with three parameters was processed
C9_Witness ==
    /\ Completed
    /\ ret.text = "{{subtract:10,3,-3}}"
    /\ ret.res.out = "10"

\* every `{{key}}` of the text replaced by the value of its key in one scan of
\* the text, so that no inserted value is scanned again
RECURSIVE OneScan(_, _, _)
OneScan(text, data, pos) ==
    IF pos > Len(text) THEN ""
    ELSE LET hits == {k \in 1..Len(data) :
                        StartsWithAt(text, "{{" \o data[k].key \o "}}", pos)}
             k == CHOOSE h \in hits : \A o \in hits : h <= o
         IN IF hits = {} THEN Ch(text, pos) \o OneScan(text, data, pos + 1)
            ELSE String(data[k].value)
                 \o OneScan(text, data, pos + Len(data[k].key) + 4)

\* the value of one key holds `{{otherKey}}` for another key of the same data
ValueNamesOtherKey(data) ==
    \E k, l \in 1..Len(data) :
        /\ k /= l
        /\ data[k].value.t = "string"
        /\ IndexOfFrom(data[k].value.s, "{{" \o data[l].key \o "}}", 1) /= 0

\* C10: when a value holds `{{otherKey}}`, the first pass leaves the inserted
\* `{{otherKey}}` as it is, in whatever order the keys are listed.
C10_NoChaining ==
    (Completed /\ ValueNamesOtherKey(ret.data)) =>
        ret.res.pass1 = OneScan(ret.text, ret.data, 1)

\* C11: the string of a custom-data value, and the string a marker function
\* returns, appear in the output character for character: the first pass puts
\* String(value) where `{{key}}` stood, the second pass puts the returned
\* string where the marker stood, and no `$` sequence in them is interpreted.
C11_ValuesInsertedVerbatim ==
    (Called /\ Len(ret.data) <= 1) =>
        /\ ~ret.res.raised
        /\ ret.res.pass1 =
              (IF ret.data = <<>> THEN ret.text
               ELSE LiteralReplaceAll(ret.text, "{{" \o ret.data[1].key \o "}}",
                                      String(ret.data[1].value)))
        /\ ret.res.out = InPlace(markers[ret.inst], ret.res.pass1,
                                 matchAll(ret.res.pass1, 1), 1)

\* C12: the second pass is not nested: when no function throws, the output is
\* the text after the first pass with each `{{...}}` occurrence of that text
\* replaced, where it stands, by the result of its function; text returned by
\* a function is not replaced by a later substitution of the same call.
C12_NoNestedExpansion ==
    (Completed /\ ~SomeCallThrew) =>
        LET ms == matchAll(ret.res.pass1, 1)
        IN /\ \A j \in 1..Len(ret.res.calls) : ret.res.calls[j].match \in 1..Len(ms)
           /\ ret.res.out = InPlace(markers[ret.inst], ret.res.pass1, ms, 1)

\* the call made for match j returned a string (it did not throw)
ReturnedBy(j) == Call(ret.res.calls[j].fn, ret.res.calls[j].params)

\* no function called by the returned process call gave back text with `{{`
ResultsHoldNoMarker ==
    \A j \in 1..Len(ret.res.calls) :
        ret.res.calls[j].threw \/ IndexOfFrom(ReturnedBy(j).val, "{{", 1) = 0

\* match k of the text after the first pass has a registered name whose
\* function does not throw
Resolvable(k) ==
    LET content == matchAll(ret.res.pass1, 1)[k].content
        fn == Lookup(markers[ret.inst], NameBeforeColon(content))
    IN fn /= Undefined /\ ~Call(fn, ParamsAfterColon(content)).threw

\* C13: no duplicate is left unresolved: every occurrence matched in the text
\* after the first pass whose name is registered and whose function does not
\* throw has been replaced by the function's result, however many times the
\* same marker text occurs (function results holding no marker themselves).
C13_NoDuplicateLeftUnresolved ==
    LET ms == matchAll(ret.res.pass1, 1)
    IN (Completed /\ ResultsHoldNoMarker /\ \E k \in 1..Len(ms) : Resolvable(k)) =>
          ret.res.out = InPlace(markers[ret.inst], ret.res.pass1, ms, 1)

\* the floored day difference, found as the d with
\* d * MsPerDay <= now - date < (d + 1) * MsPerDay
FlooredDays(now, date) ==
    CHOOSE d \in {now.day - date.day - 1, now.day - date.day} :
        LET rest == (now.day - date.day - d) * MsPerDay + (now.ms - date.ms)
        IN rest >= 0 /\ rest < MsPerDay

\* the count and the unit of a distance of n >= 2 days
CountOf(n) ==
    IF n < 7 THEN n ELSE IF n < 30 THEN n \div 7
    ELSE IF n < 365 THEN n \div 30 ELSE n \div 365

UnitOf(n) ==
    IF n < 7 THEN "day" ELSE IF n < 30 THEN "week"
    ELSE IF n < 365 THEN "month" ELSE "year"

Counted(n) ==
    NatToString(CountOf(n)) \o " " \o UnitOf(n) \o (IF CountOf(n) > 1 THEN "s" ELSE "")

\* C14: relative_time gives `today`, `yesterday`, `tomorrow` for a floored day
\* difference d of 0, 1, -1, and otherwise `N unit ago` for the past and
\* `in N unit` for the future, with the same count, unit and thresholds on
\* both sides and the unit plural exactly when N > 1.
C14_RelativeTimePhrases ==
    ret.op = "relative_time" =>
        LET d == FlooredDays(ret.now, ret.date)
        IN ret.res = (CASE d = 0 -> "today"
                        [] d = 1 -> "yesterday"
                        [] d = -1 -> "tomorrow"
                        [] d > 1 -> Counted(d) \o " ago"
                        [] d < -1 -> "in " \o Counted(-d))

\* the own entry of a registry for a name, Undefined when it has none
OwnEntry(reg, n) == IF n \in DOMAIN reg THEN reg[n] ELSE Undefined

\* C15: every instance is constructed with its own registry holding the
\* built-ins; a registerMarker(n, fn) call on an instance sets entry n of that
\* instance and changes no other entry of it and no entry of another
\* instance; a process call and its return change no registry, and the call
\* returns with the custom data it was given.
C15_RegistryIsolation ==
    [][ /\ DOMAIN markers \subseteq DOMAIN markers'
        /\ \A i \in DOMAIN markers' \ DOMAIN markers : markers'[i] = getBuiltInMarkers
        /\ \A i \in DOMAIN markers :
              \A n \in DOMAIN markers[i] \cup DOMAIN markers'[i] :
                  OwnEntry(markers'[i], n) /= OwnEntry(markers[i], n) =>
                      regLog' = Append(regLog, [inst |-> i, name |-> n,
                                                fn |-> OwnEntry(markers'[i], n)])
        /\ regLog' /= regLog =>
              /\ Len(regLog') = Len(regLog) + 1
              /\ SubSeq(regLog', 1, Len(regLog)) = regLog
              /\ LET last == regLog'[Len(regLog')]
                 IN OwnEntry(markers'[last.inst], last.name) = last.fn
        /\ ret' /= ret => markers' = markers /\ regLog' = regLog
        /\ (ret = NoCall /\ ret' /= NoCall) =>
              /\ ret'.inst \in DOMAIN markers
              /\ ret'.res = process(markers[ret'.inst], ret'.text, ret'.data)
      ]_vars

\* both instances exist, `a` was registered on the constructed instance only,
\* and a call on the default instance has just left `{{a}}` as written
C15_Witness ==
    /\ DOMAIN markers = Instances
    /\ \E k \in 1..Len(regLog) : regLog[k].inst = "df" /\ regLog[k].name = "a"
    /\ ~RegisteredOn("docufresh", "a")
    /\ OwnEntry(markers["df"], "a") = "constX"
    /\ Called /\ ret.inst = "docufresh" /\ ret.text = "{{a}}" /\ ret.data = <<>>
    /\ ret.res.out = "{{a}}"

====
